---- MODULE Spec2Model ----
(***************************************************************************)
(* Prima Scholar scoring and prediction engine.                            *)
(*                                                                         *)
(* ExcellenceEngine (backend/models/excellence_engine.py), the trajectory  *)
(* table it reads and writes (backend/databases/connection.py) and the     *)
(* Redis prediction cache (backend/services/prediction_service.py).        *)
(*                                                                         *)
(* Numbers.  The program computes in floating point; the model computes    *)
(* the same expressions exactly, over integers:                            *)
(*   current_gpa, scores, rounded factors   hundredths  (390 is 3.90)      *)
(*   probability, confidence                tenths      (783 is 78.3)      *)
(*   unrounded factors                      n / Scale(m)                   *)
(*   trajectory factor                      a fraction [num, den]          *)
(*   weights of the five factors            hundredths  (40 is 0.40)       *)
(*   weights of a distinction               twentieths  (12 is 0.60)       *)
(*   level multiplier                       tenths      (13 is 1.3)        *)
(* round(x, k) is Python's rounding: to nearest, ties to even.             *)
(* A field the row leaves out and a field holding the default (0, the      *)
(* empty list, 'stable', 'undergraduate') are the same record here: every  *)
(* read of the source is student_data.get(name, default).  A field holding *)
(* None is named in the record's nulls.                                    *)
(***************************************************************************)
EXTENDS Integers, Sequences, FiniteSets, TLC

VARIABLES
    students,      \* student_id -> the comprehensive student data, or NoStudent
    profile,       \* student_id -> scholar_profiles.excellence_score (hundredths)
    trajectory,    \* student_id -> rows of excellence_trajectory, in insertion order
    predictions,   \* rows of distinction_predictions written so far
    day,           \* CURDATE() / datetime.now(), in days
    result,        \* what the last call returned, with what it read and wrote
    cache_enabled, \* PredictionService.cache_enabled
    redis_up,      \* the Redis server answers
    redis,         \* cache key -> [data, expires_at]
    now,           \* the cache server's clock, in units of ten minutes
    reply,         \* what the last cache call returned
    callers        \* caller -> where its getOrCompute stands (concurrent callers)

vars == <<students, profile, trajectory, predictions, day, result,
          cache_enabled, redis_up, redis, now, reply, callers>>

engineVars == <<students, profile, trajectory, predictions, day, result>>
cacheVars == <<cache_enabled, redis_up, redis, now, reply, callers>>

(***************************************************************************)
(* Arithmetic                                                              *)
(***************************************************************************)
Min(a, b) == IF a <= b THEN a ELSE b
Max(a, b) == IF a >= b THEN a ELSE b

RECURSIVE Gcd(_, _)
Gcd(a, b) == IF b = 0 THEN a ELSE Gcd(b, a % b)

\* round(a / b) for b > 0: to nearest, ties to even (Python 3 round).
RoundDiv(a, b) ==
    LET q == a \div b
        r == a - q * b
    IN  IF 2 * r < b THEN q
        ELSE IF 2 * r > b THEN q + 1
        ELSE IF q % 2 = 0 THEN q ELSE q + 1

\* <<q, r>> with a * b = q * c + r and 0 <= r < c, for a, b >= 0 and c > 0,
\* without forming a * b (which need not fit a 32-bit integer).
RECURSIVE MulDivMod(_, _, _)
MulDivMod(a, b, c) ==
    IF b = 0 THEN <<0, 0>>
    ELSE LET h == MulDivMod(a, b \div 2, c)
             odd == b % 2 = 1
             t == 2 * h[2] + (IF odd THEN a % c ELSE 0)
         IN  <<2 * h[1] + (IF odd THEN a \div c ELSE 0) + t \div c, t % c>>

\* round(a * b / (c * d)): to nearest, ties to even; a, b >= 0 and c, d > 0.
RoundMulDiv(a, b, c, d) ==
    LET x == MulDivMod(2 * a, b, c)          \* 2ab = x[1] * c + x[2]
        t2 == x[1] \div d                    \* floor(2ab / (cd))
        whole == (x[2] = 0) /\ (x[1] % d = 0)  \* 2ab / (cd) is an integer
        q == t2 \div 2
    IN  IF t2 % 2 = 0 THEN q
        ELSE IF ~whole THEN q + 1
        ELSE IF q % 2 = 0 THEN q ELSE q + 1

RECURSIVE SumSeq(_)
SumSeq(s) == IF s = <<>> THEN 0 ELSE Head(s) + SumSeq(Tail(s))

\* The list as it is, where the source reverses it.
KeepOrder(s) == s

\* list.reverse()
Reverse(s) == [i \in 1..Len(s) |-> s[Len(s) + 1 - i]]

(***************************************************************************)
(* Student data                                                            *)
(***************************************************************************)
NoStudent == [found |-> FALSE]

\* The fields whose None makes a factor computation raise TypeError
\* (arithmetic, comparison or len on None).
ArithmeticFields ==
    {"current_gpa", "honors_courses", "academic_achievements",
     "research_projects", "publications", "presentations",
     "theoretical_frameworks_engaged", "elite_tier_documents",
     "leadership_roles", "service_hours", "leadership_impact_score",
     "original_projects", "creative_works", "innovative_approaches_suggested"}

\* Unrounded factors of m are whole multiples of 1 / Scale(m): gpa / 4 needs
\* quarters, service_hours / 10 tenths, and the session means 1 / (10 n).
Scale(m) == 20 * Max(1, Len(m.mentorship_sessions))

(***************************************************************************)
(* ExcellenceEngine: the five factors                                      *)
(***************************************************************************)
sophistication_scores(level) ==
    CASE level = "basic" -> 10
      [] level = "intermediate" -> 25
      [] level = "advanced" -> 40
      [] level = "scholar" -> 60
      [] OTHER -> 10

_calculate_academic_performance(m) ==
    LET K == Scale(m)
        base_score == Min((K \div 4) * m.current_gpa, 100 * K)
        honors == IF m.honors_courses > 0 THEN Min(m.honors_courses * 2, 10) ELSE 0
        trend == IF m.gpa_trend = "improving" THEN 5
                 ELSE IF m.gpa_trend = "declining" THEN -5 ELSE 0
        bonus == honors + trend + Min(m.academic_achievements * 3, 15)
    IN  Min(base_score + K * bonus, 100 * K)

\* A research factor that takes the presentations off the publications.
research_engagement_less_presentations(m) ==
    LET K == Scale(m)
        s == m.mentorship_sessions
        n == Len(s)
        projects == Min(m.research_projects * 15, 40)
        papers == Min(m.publications * 20 - m.presentations * 10, 30)
        quality == IF n = 0 THEN 0
                   ELSE Min(2 * SumSeq([i \in 1..n |-> s[i].session_quality_score]),
                            10 * K)
    IN  Min(K * (20 + projects + papers) + quality, 100 * K)

_calculate_research_engagement(m) ==
    LET K == Scale(m)
        s == m.mentorship_sessions
        n == Len(s)
        projects == Min(m.research_projects * 15, 40)
        papers == Min(m.publications * 20 + m.presentations * 10, 30)
        \* avg_quality * 10 = sum(q) / (10 n) with q in hundredths
        quality == IF n = 0 THEN 0
                   ELSE Min(2 * SumSeq([i \in 1..n |-> s[i].session_quality_score]),
                            10 * K)
    IN  Min(K * (20 + projects + papers) + quality, 100 * K)

_calculate_critical_thinking_score(m) ==
    LET K == Scale(m)
        s == m.mentorship_sessions
        n == Len(s)
        avg_sophistication ==
            20 * SumSeq([i \in 1..n |-> sophistication_scores(s[i].query_sophistication)])
        base_score == IF n = 0 THEN 40 * K ELSE Max(40 * K, avg_sophistication)
    IN  Min(base_score
            + K * Min(m.theoretical_frameworks_engaged * 3, 20)
            + K * Min(m.elite_tier_documents * 5, 15), 100 * K)

\* A leadership factor that takes a point for every service hour.
leadership_score_whole_hours(m) ==
    LET K == Scale(m)
    IN  Min(K * (10 + Min(m.leadership_roles * 15, 45))
            + Min(K * m.service_hours, 25 * K)
            + K * Min(m.leadership_impact_score, 20), 100 * K)

_calculate_leadership_score(m) ==
    LET K == Scale(m)
    IN  Min(K * (10 + Min(m.leadership_roles * 15, 45))
            + Min((K \div 10) * m.service_hours, 25 * K)
            + K * Min(m.leadership_impact_score, 20), 100 * K)

_calculate_innovation_score(m) ==
    LET K == Scale(m)
    IN  Min(K * (30 + Min(m.original_projects * 10, 30)
                    + Min(m.creative_works * 15, 25)
                    + Min(m.innovative_approaches_suggested * 2, 15)), 100 * K)

_calculate_excellence_factors(m) ==
    [academic_performance |-> _calculate_academic_performance(m),
     research_engagement |-> _calculate_research_engagement(m),
     critical_thinking |-> _calculate_critical_thinking_score(m),
     leadership_service |-> _calculate_leadership_score(m),
     innovation_creativity |-> _calculate_innovation_score(m),
     scale |-> Scale(m)]

FactorNames ==
    {"academic_performance", "research_engagement", "critical_thinking",
     "leadership_service", "innovation_creativity"}

\* A factor computation raises (TypeError) when a field it computes with is None.
FactorsRaise(m) == m.nulls \cap ArithmeticFields # {}

(***************************************************************************)
(* ExcellenceEngine.calculate_excellence_score                             *)
(***************************************************************************)
factor_weights(name) ==
    CASE name = "academic_performance" -> 40
      [] name = "research_engagement" -> 25
      [] name = "critical_thinking" -> 20
      [] name = "leadership_service" -> 10
      [] name = "innovation_creativity" -> 5

\* The factor_weights an engine may hold, in hundredths: the dictionary
\* __init__ assigns, and dictionaries with one entry written over (the
\* attribute is a plain dictionary of the instance).
WeightTables ==
    LET assigned == [name \in FactorNames |-> factor_weights(name)]
    IN  {assigned,
         [assigned EXCEPT !.academic_performance = 50],
         [assigned EXCEPT !.innovation_creativity = 0]}

SumWeights(weights) ==
    weights.academic_performance + weights.research_engagement
    + weights.critical_thinking + weights.leadership_service
    + weights.innovation_creativity

\* ExcellenceEngine.__init__ as far as the weights go: the dictionary is
\* stored; no statement looks at its sum.
ExcellenceEngineInit(weights) == [factor_weights |-> weights]

\* total_score under the weights the engine holds, in units of
\* 1 / (100 * scale).
weighted_total(engine, f) ==
    f.academic_performance * engine.factor_weights.academic_performance
    + f.research_engagement * engine.factor_weights.research_engagement
    + f.critical_thinking * engine.factor_weights.critical_thinking
    + f.leadership_service * engine.factor_weights.leadership_service
    + f.innovation_creativity * engine.factor_weights.innovation_creativity

\* Tenths.  The method's body is not among the sources; the values are the
\* scoring design's (undergraduate 1.0, graduate 1.3, doctoral 1.6,
\* postdoc 2.0, any other level 1.0).
_get_level_multiplier(level) ==
    CASE level = "undergraduate" -> 10
      [] level = "graduate" -> 13
      [] level = "doctoral" -> 16
      [] level = "postdoc" -> 20
      [] OTHER -> 10

\* total_score, in units of 1 / (100 * scale).
total_score(f) ==
    f.academic_performance * factor_weights("academic_performance")
    + f.research_engagement * factor_weights("research_engagement")
    + f.critical_thinking * factor_weights("critical_thinking")
    + f.leadership_service * factor_weights("leadership_service")
    + f.innovation_creativity * factor_weights("innovation_creativity")

\* total_score * level_multiplier without the ceiling of 100.
final_score_uncapped(f, level_multiplier) ==
    [num |-> total_score(f) * level_multiplier, den |-> 1000 * f.scale]

\* final_score = min(total_score * level_multiplier, 100), as a fraction.
final_score(f, level_multiplier) ==
    [num |-> Min(total_score(f) * level_multiplier, 100 * 1000 * f.scale),
     den |-> 1000 * f.scale]

\* round(x, 2) of a factor, in hundredths.
RoundFactor(f, name) == RoundDiv(100 * f[name], f.scale)

NotFound == [kind |-> "error", error |-> "Student data not found", score |-> 0]

\* calculate_excellence_score from the factors on (the database write aside):
\* the returned dictionary, with the unrounded factors and final score it
\* computed on the way.  An exception gives the error dictionary.
ScoreOf(data, today) ==
    IF FactorsRaise(data)
    THEN [kind |-> "error", error |-> "TypeError", score |-> 0]
    ELSE LET f == _calculate_excellence_factors(data)
             level_multiplier == _get_level_multiplier(data.academic_level)
             final == final_score(f, level_multiplier)
         IN  [kind |-> "score",
              excellence_score |-> RoundDiv(final.num, final.den \div 100),
              factors |-> [name \in FactorNames |-> RoundFactor(f, name)],
              level_multiplier |-> level_multiplier,
              calculated_at |-> today,
              computed_factors |-> f,
              computed_final |-> final]

\* The computation run on whatever the fetch gave, a missing student included.
ScoreCallUnguarded(data, today) ==
    ScoreOf(IF data.found THEN data ELSE [found |-> TRUE, nulls |-> {"current_gpa"}],
            today)

\* What calculate_excellence_score returns for the student data it was given
\* or fetched.
ScoreCall(data, today) ==
    IF ~data.found THEN NotFound ELSE ScoreOf(data, today)

(***************************************************************************)
(* DatabaseManager.update_excellence_score and the trajectory query        *)
(***************************************************************************)
\* A value bound to a DECIMAL(5,2) column: hundredths, halves rounded up.
ToDecimal(x) == (2 * x.num + (x.den \div 100)) \div (2 * (x.den \div 100))

\* "ok": both statements ran.  "fail_update": the UPDATE raised, nothing was
\* written.  "fail_insert": the UPDATE was committed and the INSERT raised.
\* Either failure is caught and the method returns False.
WriteOutcomes == {"ok", "fail_update", "fail_insert"}

\* An update that lets the failure of a statement reach its caller.
update_excellence_score_raising(student_id, new_score, outcome) ==
    [profile |->
        IF outcome = "fail_update" THEN profile
        ELSE [profile EXCEPT ![student_id] = ToDecimal(new_score)],
     trajectory |->
        IF outcome # "ok" THEN trajectory
        ELSE [trajectory EXCEPT ![student_id] =
                Append(@, [trajectory_date |-> day,
                           excellence_score |-> ToDecimal(new_score)])],
     returned |-> outcome = "ok",
     raised |-> outcome # "ok"]

\* excellence_trajectory has no unique key over (student_id, trajectory_date),
\* so ON DUPLICATE KEY UPDATE never applies: every call inserts a row.  The
\* except clause catches whatever a statement raises: nothing is raised to
\* the caller.
update_excellence_score(student_id, new_score, outcome) ==
    [profile |->
        IF outcome = "fail_update" THEN profile
        ELSE [profile EXCEPT ![student_id] = ToDecimal(new_score)],
     trajectory |->
        IF outcome # "ok" THEN trajectory
        ELSE [trajectory EXCEPT ![student_id] =
                Append(@, [trajectory_date |-> day,
                           excellence_score |-> ToDecimal(new_score)])],
     returned |-> outcome = "ok",
     raised |-> FALSE]

\* The rows of a student's table that DELETE FROM excellence_trajectory WHERE
\* created_at < DATE_SUB(NOW(), INTERVAL days * 2 DAY) leaves: the rows are in
\* the order of their insertion, and the first `deleted` of them were created
\* before that moment.
cleanup_old_data(rows, deleted) == SubSeq(rows, deleted + 1, Len(rows))

\* How many rows the DELETE may find older than the moment: every row of a
\* day before the boundary day, and the rows of the boundary day written at
\* an earlier hour than now (all of them when the boundary day is today).
CleanupCounts(rows, days) ==
    LET before == Cardinality({i \in 1..Len(rows) :
                                  rows[i].trajectory_date < day - 2 * days})
        upto == Cardinality({i \in 1..Len(rows) :
                                rows[i].trajectory_date <= day - 2 * days})
    IN  IF days = 0 THEN {upto} ELSE before..upto

SeqPermutations(s) ==
    {[i \in 1..Len(s) |-> s[f[i]]] : f \in Permutations(1..Len(s))}

\* The rows with the latest trajectory_date end the table (CURDATE() never
\* goes back): how many there are.
RECURSIVE LatestRun(_)
LatestRun(rows) ==
    IF Len(rows) <= 1 THEN Len(rows)
    ELSE IF rows[Len(rows) - 1].trajectory_date = rows[Len(rows)].trajectory_date
    THEN 1 + LatestRun(SubSeq(rows, 1, Len(rows) - 1))
    ELSE 1

\* Every sequence ORDER BY trajectory_date DESC may return: rows of one date
\* come in an order the database chooses.
RECURSIVE DescOrders(_)
DescOrders(rows) ==
    IF rows = <<>> THEN {<<>>}
    ELSE LET k == LatestRun(rows)
             latest == SubSeq(rows, Len(rows) - k + 1, Len(rows))
             older == SubSeq(rows, 1, Len(rows) - k)
         IN  {p \o r : p \in SeqPermutations(latest), r \in DescOrders(older)}

TrajectoryLimit == 10

\* What the query of _analyze_improvement_trajectory may return.
TrajectoryQuery(rows) ==
    {SubSeq(o, 1, Min(TrajectoryLimit, Len(o))) : o \in DescOrders(rows)}

(***************************************************************************)
(* ExcellenceEngine._analyze_improvement_trajectory                        *)
(***************************************************************************)
\* The slope of the line through the first and the last score.
slope_between_ends(scores) ==
    [num |-> scores[Len(scores)] - scores[1], den |-> Len(scores) - 1]

\* np.polyfit(x, scores, 1)[0] for x = 0 .. n-1: the least-squares slope,
\* num / den in hundredths of a point per step.
polyfit_slope(scores) ==
    LET n == Len(scores)
        sx == SumSeq([i \in 1..n |-> i - 1])
        sy == SumSeq(scores)
        sxy == SumSeq([i \in 1..n |-> (i - 1) * scores[i]])
        sxx == SumSeq([i \in 1..n |-> (i - 1) * (i - 1)])
    IN  [num |-> n * sxy - sx * sy, den |-> n * sxx - sx * sx]

Fraction(p, q) == LET g == Gcd(p, q) IN [num |-> p \div g, den |-> q \div g]

Neutral == [num |-> 1, den |-> 2]

\* A trajectory factor that is neutral whatever the history.
trajectory_always_neutral(trajectory_data) == Neutral

\* trajectory_data: [ok |-> TRUE, rows |-> the query's rows] or
\* [ok |-> FALSE] when execute_query raised.
_analyze_improvement_trajectory(trajectory_data) ==
    IF ~trajectory_data.ok THEN Neutral
    ELSE IF Len(trajectory_data.rows) < 2 THEN Neutral
    ELSE LET rows == trajectory_data.rows
             scores == Reverse([i \in 1..Len(rows) |-> rows[i].excellence_score])
             slope == polyfit_slope(scores)
             \* 0.5 + slope / 20 = (1000 den + num) / (2000 den)
             q == 2000 * slope.den
         IN  Fraction(Max(0, Min(q, 1000 * slope.den + slope.num)), q)

(***************************************************************************)
(* ExcellenceEngine.predict_distinction_probability                        *)
(***************************************************************************)
\* gpa_min and excellence_score_min in hundredths, weight_factors in
\* twentieths.
distinction_requirements ==
    [Dean_List |->
        [gpa_min |-> 350, excellence_score_min |-> 7500, gpa |-> 12, excellence |-> 8],
     Magna_Cum_Laude |->
        [gpa_min |-> 370, excellence_score_min |-> 8500, gpa |-> 10, excellence |-> 10],
     Summa_Cum_Laude |->
        [gpa_min |-> 390, excellence_score_min |-> 9500, gpa |-> 8, excellence |-> 12],
     Phi_Beta_Kappa |->
        [gpa_min |-> 380, excellence_score_min |-> 9000, gpa |-> 9, excellence |-> 11],
     Rhodes_Scholar |->
        [gpa_min |-> 390, excellence_score_min |-> 9800, gpa |-> 6, excellence |-> 14],
     Fulbright_Scholar |->
        [gpa_min |-> 380, excellence_score_min |-> 9200, gpa |-> 7, excellence |-> 13]]

\* min(current_gpa / gpa_min, 1.0), or 1.0 without a gpa requirement.
gpa_factor(current_gpa, requirement) ==
    IF requirement.gpa_min > 0
    THEN Fraction(Min(current_gpa, requirement.gpa_min), requirement.gpa_min)
    ELSE [num |-> 1, den |-> 1]

\* min(current_excellence / excellence_score_min, 1.0).
excellence_factor(current_excellence, requirement) ==
    Fraction(Min(current_excellence, requirement.excellence_score_min),
             requirement.excellence_score_min)

\* A base probability with the two weights of the requirement exchanged.
base_probability_weights_exchanged(current_gpa, current_excellence, requirement) ==
    LET g == IF requirement.gpa_min > 0
             THEN Min(current_gpa, requirement.gpa_min) ELSE 1
        gm == IF requirement.gpa_min > 0 THEN requirement.gpa_min ELSE 1
        c == Min(current_excellence, requirement.excellence_score_min)
        cm == requirement.excellence_score_min
    IN  [num |-> 5 * (requirement.excellence * g * cm + requirement.gpa * c * gm),
         den |-> gm * cm]

\* base_probability as a fraction: 100 * (gpa_factor * w_gpa + excellence_factor * w_exc).
base_probability(current_gpa, current_excellence, requirement) ==
    LET g == IF requirement.gpa_min > 0
             THEN Min(current_gpa, requirement.gpa_min) ELSE 1
        gm == IF requirement.gpa_min > 0 THEN requirement.gpa_min ELSE 1
        c == Min(current_excellence, requirement.excellence_score_min)
        cm == requirement.excellence_score_min
    IN  [num |-> 5 * (requirement.gpa * g * cm + requirement.excellence * c * gm),
         den |-> gm * cm]

ProbabilityCap == 95

\* round(base * (0.7 + 0.3 * trajectory_factor), 1) without the ceiling.
final_probability_uncapped(base, trajectory_factor) ==
    RoundMulDiv(base.num,
                7 * trajectory_factor.den + 3 * trajectory_factor.num,
                base.den, trajectory_factor.den)

\* round(min(base * (0.7 + 0.3 * trajectory_factor), 95), 1), in tenths.
\* Rounding is monotone and 95.0 is a tenth, so the cap commutes with it.
final_probability(base, trajectory_factor) ==
    Min(RoundMulDiv(base.num,
                    7 * trajectory_factor.den + 3 * trajectory_factor.num,
                    base.den, trajectory_factor.den),
        10 * ProbabilityCap)

\* bool(student_data.get(field)): None, 0 and the empty list are false.
Truthy(m, field) ==
    /\ field \notin m.nulls
    /\ IF field = "mentorship_sessions" THEN m[field] # <<>> ELSE m[field] # 0

ConfidenceCap == 95

\* A confidence that grows with the predictions stored so far.
confidence_from_stored_predictions(m) ==
    Min(70 + 5 * Len(predictions), ConfidenceCap)

\* In whole points; round(confidence, 1) leaves a whole number as it is.
_calculate_prediction_confidence(m) ==
    LET data_fields == {"current_gpa", "mentorship_sessions", "academic_achievements",
                        "research_projects", "leadership_roles"}
        present == Cardinality({f \in data_fields : Truthy(m, f)})
        sessions_count == Len(m.mentorship_sessions)
        sessions == IF sessions_count >= 10 THEN 10
                    ELSE IF sessions_count >= 5 THEN 5 ELSE 0
        age == IF "profile_age_days" \notin m.nulls /\ m.profile_age_days >= 90
               THEN 5 ELSE 0
    IN  Min(70 + 4 * present + sessions + age, ConfidenceCap)

\* The prediction raises (TypeError) on current_gpa / gpa_min with a None gpa,
\* on len(None) for the sessions and on None >= 90 for the profile age.
PredictionRaises(m) ==
    m.nulls \cap {"current_gpa", "mentorship_sessions", "profile_age_days"} # {}

\* The required score less the current one, whatever its sign.
gap_signed(excellence_score_min, current_excellence) ==
    excellence_score_min - current_excellence

\* 'gap': max(0, requirement.excellence_score_min - current_excellence).
gap(excellence_score_min, current_excellence) ==
    Max(0, excellence_score_min - current_excellence)

\* None, where a date may stand.
NoDate == [none |-> TRUE]

\* estimateAchievementDate: with a trajectory factor above 0.5 and a score
\* short of the requirement, the day the fitted slope (points a day) closes
\* the shortfall; otherwise no date.  The method's body is not among the
\* sources; it is given the student, whose history is trajectory_data here.
_estimate_achievement_timeline(trajectory_data, current, excellence_score_min, today) ==
    LET trajectory_factor == _analyze_improvement_trajectory(trajectory_data)
        short == excellence_score_min - current
    IN  IF 2 * trajectory_factor.num > trajectory_factor.den /\ short > 0
        THEN LET rows == trajectory_data.rows
                 slope == polyfit_slope(
                     Reverse([i \in 1..Len(rows) |-> rows[i].excellence_score]))
             IN  [none |-> FALSE,
                  date |-> today + ((short * slope.den + slope.num - 1) \div slope.num)]
        ELSE NoDate

\* A field that holds the last day of the calendar (9999-12-31) where there
\* is no estimated date.
achievement_date_or_last_day(estimated_date) ==
    IF estimated_date.none THEN [none |-> FALSE, isoformat |-> 3652059]
    ELSE [none |-> FALSE, isoformat |-> estimated_date.date]

\* 'estimated_achievement_date': estimated_date.isoformat() if estimated_date
\* else None.
estimated_achievement_date(estimated_date) ==
    IF estimated_date.none THEN NoDate
    ELSE [none |-> FALSE, isoformat |-> estimated_date.date]

UnknownDistinction(distinction) ==
    [kind |-> "error", error |-> "Unknown distinction: " \o distinction]

\* What predict_distinction_probability returns once the requirement and the
\* student data are there: excellence_data is what the embedded
\* calculate_excellence_score returned, trajectory_data what the trajectory
\* query gave.
PredictCall(data, distinction, requirement, excellence_data, trajectory_data, today) ==
    IF PredictionRaises(data) THEN [kind |-> "error", error |-> "TypeError"]
    ELSE LET \* excellence_data.get('excellence_score', 0)
             current_excellence == IF excellence_data.kind = "score"
                                   THEN excellence_data.excellence_score ELSE 0
             base == base_probability(data.current_gpa, current_excellence, requirement)
             trajectory_factor == _analyze_improvement_trajectory(trajectory_data)
         IN  [kind |-> "prediction",
              distinction |-> distinction,
              probability |-> final_probability(base, trajectory_factor),
              confidence |-> 10 * _calculate_prediction_confidence(data),
              current_excellence_score |-> current_excellence,
              required_excellence_score |-> requirement.excellence_score_min,
              current_gpa |-> data.current_gpa,
              required_gpa |-> requirement.gpa_min,
              gap |-> gap(requirement.excellence_score_min, current_excellence),
              estimated_achievement_date |->
                  estimated_achievement_date(
                      _estimate_achievement_timeline(
                          trajectory_data, current_excellence,
                          requirement.excellence_score_min, today)),
              trajectory_factor |->
                  RoundDiv(100 * trajectory_factor.num, trajectory_factor.den),
              calculated_at |-> today]

(***************************************************************************)
(* Inputs                                                                  *)
(***************************************************************************)
StudentIds == {"s1", "s2"}

\* The six distinctions of the requirement table and a name it lacks.
DistinctionNames == DOMAIN distinction_requirements \cup {"Valedictorian"}

Session(quality, sophistication) ==
    [session_quality_score |-> quality, query_sophistication |-> sophistication]

ZeroStudent ==
    [found |-> TRUE, nulls |-> {},
     current_gpa |-> 0, honors_courses |-> 0, gpa_trend |-> "stable",
     academic_achievements |-> 0,
     research_projects |-> 0, publications |-> 0, presentations |-> 0,
     mentorship_sessions |-> <<>>,
     theoretical_frameworks_engaged |-> 0, elite_tier_documents |-> 0,
     leadership_roles |-> 0, service_hours |-> 0, leadership_impact_score |-> 0,
     original_projects |-> 0, creative_works |-> 0,
     innovative_approaches_suggested |-> 0,
     academic_level |-> "undergraduate", profile_age_days |-> 0]

MidStudent ==
    [ZeroStudent EXCEPT
        !.current_gpa = 320, !.honors_courses = 1, !.academic_achievements = 1,
        !.research_projects = 1, !.presentations = 1,
        !.mentorship_sessions = <<Session(50, "intermediate"), Session(83, "advanced")>>,
        !.theoretical_frameworks_engaged = 2, !.elite_tier_documents = 1,
        !.leadership_roles = 1, !.service_hours = 37, !.leadership_impact_score = 5,
        !.original_projects = 1, !.innovative_approaches_suggested = 3,
        !.profile_age_days = 30]

FiveSessions == [i \in 1..5 |-> Session(90, "scholar")]

TopStudent ==
    [ZeroStudent EXCEPT
        !.current_gpa = 400, !.honors_courses = 6, !.gpa_trend = "improving",
        !.academic_achievements = 6,
        !.research_projects = 3, !.publications = 2, !.presentations = 4,
        !.mentorship_sessions = FiveSessions,
        !.theoretical_frameworks_engaged = 7, !.elite_tier_documents = 4,
        !.leadership_roles = 4, !.service_hours = 260, !.leadership_impact_score = 25,
        !.original_projects = 4, !.creative_works = 2,
        !.innovative_approaches_suggested = 8,
        !.profile_age_days = 120]

\* The student data the engine's calls run on in Spec.
SampleStudents ==
    {[ZeroStudent EXCEPT !.gpa_trend = "declining"],
     [MidStudent EXCEPT !.academic_level = "graduate"],
     [TopStudent EXCEPT !.current_gpa = 390, !.gpa_trend = "stable",
                        !.honors_courses = 0, !.academic_achievements = 1,
                        !.research_projects = 1, !.publications = 0],
     TopStudent,
     [MidStudent EXCEPT !.nulls = {"leadership_impact_score"}],
     [MidStudent EXCEPT !.nulls = {"current_gpa"}]}

\* The trajectory rows the table holds before the first call: none, or one
\* written the day before.
PriorHistories ==
    {<<>>, <<[trajectory_date |-> -1, excellence_score |-> 6000]>>}

\* The histories the maintenance runs on: none, and one with a row older than
\* 180 days.
OldHistories ==
    {<<>>,
     <<[trajectory_date |-> -200, excellence_score |-> 5000],
       [trajectory_date |-> -1, excellence_score |-> 6000]>>}

\* The days cleanup_old_data is called with: the default and none.
CleanupDays == {0, 90}

\* The distinctions the calls of Spec ask for.
RequestedDistinctions == {"Dean_List", "Summa_Cum_Laude", "Valedictorian"}

Idle == [op |-> "none"]

MaxRows == 2
MaxDay == 1
MaxStored == 1

\* The student data calculate_excellence_score runs on in SpecFactors: each
\* group of fields takes all its combinations on each baseline and level.
GpaValues == {0, 10, 250, 320, 375, 400}
CountValues == {0, 1, 3, 6}
Trends == {"improving", "stable", "declining", "unknown"}
Levels == {"undergraduate", "graduate", "doctoral", "postdoc", "visiting"}

SessionLists ==
    {<<>>,
     <<Session(83, "advanced")>>,
     <<Session(50, "intermediate"), Session(83, "advanced")>>,
     <<Session(100, "scholar"), Session(0, "basic"), Session(33, "novice")>>,
     FiveSessions}

Baselines ==
    {[b EXCEPT !.academic_level = level] :
        b \in {ZeroStudent, MidStudent, TopStudent}, level \in Levels}

AcademicInputs(b) ==
    {[b EXCEPT !.current_gpa = g, !.honors_courses = h, !.gpa_trend = t,
               !.academic_achievements = a] :
        g \in GpaValues, h \in CountValues, t \in Trends, a \in CountValues}

ResearchInputs(b) ==
    {[b EXCEPT !.research_projects = r, !.publications = p, !.presentations = q,
               !.mentorship_sessions = m] :
        r \in CountValues, p \in {0, 1, 2}, q \in {0, 1, 4}, m \in SessionLists}

ThinkingInputs(b) ==
    {[b EXCEPT !.theoretical_frameworks_engaged = t, !.elite_tier_documents = e] :
        t \in {0, 2, 7}, e \in {0, 1, 3, 4}}

LeadershipInputs(b) ==
    {[b EXCEPT !.leadership_roles = r, !.service_hours = h,
               !.leadership_impact_score = i] :
        r \in CountValues, h \in {0, 37, 250, 260}, i \in {0, 5, 20, 25}}

InnovationInputs(b) ==
    {[b EXCEPT !.original_projects = o, !.creative_works = c,
               !.innovative_approaches_suggested = i] :
        o \in CountValues, c \in {0, 1, 2}, i \in {0, 3, 8}}

\* By how much one input of a record is raised to give the larger record.
Increments == {1, 10}

\* The metrics predict_distinction_probability is run on in SpecMetrics: the
\* gpa and the score in hundredths, and the trajectory rows the query gave,
\* latest first.
MetricGpas == {0, 200, 320, 350, 390, 400}
MetricScores == {0, 5000, 7000, 7500, 9500, 9600, 10000}
MetricRows ==
    {<<>>,
     <<[trajectory_date |-> -1, excellence_score |-> 7000],
       [trajectory_date |-> -2, excellence_score |-> 7000]>>,
     <<[trajectory_date |-> -1, excellence_score |-> 9400],
       [trajectory_date |-> -2, excellence_score |-> 9200]>>,
     <<[trajectory_date |-> -1, excellence_score |-> 6000],
       [trajectory_date |-> -2, excellence_score |-> 7000]>>}

FactorInputs(baselines) ==
    UNION {AcademicInputs(b) \cup ResearchInputs(b) \cup ThinkingInputs(b)
           \cup LeadershipInputs(b) \cup InnovationInputs(b) : b \in baselines}

\* The student data and the one-row histories predict_distinction_probability
\* runs on in SpecPredict.
PredictInputs ==
    AcademicInputs(MidStudent) \cup AcademicInputs(TopStudent) \cup SampleStudents

PredictHistories ==
    {<<>>} \cup {<<[trajectory_date |-> -1, excellence_score |-> x]>> : x \in {0, 10000}}

\* The trajectory tables _analyze_improvement_trajectory runs on in
\* SpecTrajectory: one row a day, the last one written the day before.
ScoreGrid == {0, 1, 2, 3, 2500, 5000, 6000, 6500, 7000, 7500, 8000, 9999, 10000}

MaxHistory == 11

RECURSIVE Ascending(_)
Ascending(S) ==
    IF S = {} THEN <<>>
    ELSE LET least == CHOOSE x \in S : \A y \in S : x <= y
         IN  <<least>> \o Ascending(S \ {least})

RECURSIVE Descending(_)
Descending(S) ==
    IF S = {} THEN <<>>
    ELSE LET most == CHOOSE x \in S : \A y \in S : x >= y
         IN  <<most>> \o Descending(S \ {most})

Dated(scores) ==
    [i \in 1..Len(scores) |->
        [trajectory_date |-> i - Len(scores) - 1, excellence_score |-> scores[i]]]

Histories(longest) ==
    LET short == {S \in SUBSET ScoreGrid : Cardinality(S) <= longest}
    IN  {Dated(Ascending(S)) : S \in short}
        \cup {Dated(Descending(S)) : S \in short}
        \cup {Dated(h) : h \in UNION {[1..n -> {0, 5000, 10000}] : n \in 0..3}}

(***************************************************************************)
(* The engine's calls                                                      *)
(***************************************************************************)
\* fetchComprehensiveStudentData: the row set of the student, or nothing.
\* The method's body is not among the sources.
_get_comprehensive_student_data(student_id) == students[student_id]

\* persistPrediction, best effort: the row is written unless the write fails.
\* The method's body is not among the sources.
_store_prediction_in_db(student_id, prediction_result, stored) ==
    IF stored
    THEN Append(predictions, [student_id |-> student_id,
                              distinction |-> prediction_result.distinction,
                              probability |-> prediction_result.probability])
    ELSE predictions

\* The write calculate_excellence_score makes once the score is computed; no
\* write is made when the computation returned an error.
ScoreWrite(student_id, value, outcome) ==
    IF value.kind = "score"
    THEN update_excellence_score(student_id, value.computed_final, outcome)
    ELSE [profile |-> profile, trajectory |-> trajectory, returned |-> FALSE,
          raised |-> FALSE]

\* What calculate_excellence_score returns after the write: the dictionary
\* computed, or the error dictionary of its except clause had the write
\* raised.  The value the write returns is not looked at.
ScoreReturned(computed, db) ==
    IF db.raised
    THEN [kind |-> "error", error |-> "write failed", score |-> 0]
    ELSE computed

\* calculate_excellence_score(student_id): fetch, compute, write, return.
CalculateExcellenceScore(student_id) ==
    \E data \in {_get_comprehensive_student_data(student_id)} :
    \E computed \in {ScoreCall(data, day)} :
    \E outcome \in WriteOutcomes :
    \E db \in {ScoreWrite(student_id, computed, outcome)} :
    \E value \in {ScoreReturned(computed, db)} :
        /\ computed.kind # "score" => outcome = "ok"
        /\ Len(db.trajectory[student_id]) <= MaxRows
        /\ profile' = db.profile
        /\ trajectory' = db.trajectory
        /\ result' = [op |-> "calculate_excellence_score",
                      student_id |-> student_id,
                      data |-> data, value |-> value,
                      written |-> db.returned]
        /\ UNCHANGED <<students, predictions, day, cacheVars>>

\* The history query of _analyze_improvement_trajectory: the rows read, or a
\* failed query.
TrajectoryReads(rows) ==
    {[ok |-> FALSE]} \cup {[ok |-> TRUE, rows |-> r] : r \in TrajectoryQuery(rows)}

\* _analyze_improvement_trajectory(student_id) on its own.
AnalyzeImprovementTrajectory(student_id) ==
    \E trajectory_data \in TrajectoryReads(trajectory[student_id]) :
        /\ result' = [op |-> "_analyze_improvement_trajectory",
                      student_id |-> student_id,
                      trajectory_data |-> trajectory_data,
                      value |-> _analyze_improvement_trajectory(trajectory_data)]
        /\ UNCHANGED <<students, profile, trajectory, predictions, day, cacheVars>>

\* predict_distinction_probability from the fetch of the student data on,
\* against the requirement given.
PredictAgainst(student_id, distinction, requirement) ==
    \E data \in {_get_comprehensive_student_data(student_id)} :
    IF ~data.found
    THEN /\ result' = [op |-> "predict_distinction_probability",
                       student_id |-> student_id, distinction |-> distinction,
                       value |-> [kind |-> "error",
                                  error |-> "Student data not found"]]
         /\ UNCHANGED <<students, profile, trajectory, predictions, day, cacheVars>>
    ELSE \E computed \in {ScoreCall(data, day)} :
         \E outcome \in WriteOutcomes :
         \E db \in {ScoreWrite(student_id, computed, outcome)} :
         \E excellence_data \in {ScoreReturned(computed, db)} :
             /\ computed.kind # "score" => outcome = "ok"
             /\ Len(db.trajectory[student_id]) <= MaxRows
             /\ \E trajectory_data \in TrajectoryReads(db.trajectory[student_id]) :
                \E value \in {PredictCall(data, distinction, requirement,
                                          excellence_data, trajectory_data, day)} :
                \E stored \in BOOLEAN :
                    /\ value.kind # "prediction" => ~stored
                    /\ stored => Len(predictions) < MaxStored
                    /\ predictions' =
                           _store_prediction_in_db(student_id, value, stored)
                    /\ result' = [op |-> "predict_distinction_probability",
                                  student_id |-> student_id,
                                  distinction |-> distinction,
                                  data |-> data,
                                  excellence_data |-> excellence_data,
                                  trajectory_data |-> trajectory_data,
                                  value |-> value,
                                  written |-> db.returned,
                                  stored |-> stored]
             /\ profile' = db.profile
             /\ trajectory' = db.trajectory
             /\ UNCHANGED <<students, day, cacheVars>>

\* predict_distinction_probability from the current metrics on: the score the
\* embedded calculation returned and the rows the trajectory query gave.
PredictFromMetrics(current_gpa, current_excellence, distinction, rows) ==
    /\ result' = [op |-> "predict_from_metrics",
                  current_gpa |-> current_gpa,
                  current_excellence |-> current_excellence,
                  distinction |-> distinction,
                  rows |-> rows,
                  value |-> PredictCall(
                      [MidStudent EXCEPT !.current_gpa = current_gpa],
                      distinction, distinction_requirements[distinction],
                      [kind |-> "score", excellence_score |-> current_excellence],
                      [ok |-> TRUE, rows |-> rows], day)]
    /\ UNCHANGED <<students, profile, trajectory, predictions, day, cacheVars>>

\* The engine constructed with a weight dictionary.
LoadEngine(weights) ==
    /\ result = Idle
    /\ result' = [op |-> "__init__", engine |-> ExcellenceEngineInit(weights)]
    /\ UNCHANGED <<students, profile, trajectory, predictions, day, cacheVars>>

\* calculate_excellence_score(student_id, student_data) on the engine
\* constructed, the database write aside.
CalculateOnEngine(data) ==
    /\ result.op = "__init__"
    /\ \E f \in {_calculate_excellence_factors(data)} :
       \E level_multiplier \in {_get_level_multiplier(data.academic_level)} :
          result' = [op |-> "engine_score",
                     engine |-> result.engine,
                     data |-> data,
                     value |-> [kind |-> "score",
                                excellence_score |->
                                    RoundDiv(Min(weighted_total(result.engine, f)
                                                     * level_multiplier,
                                                 100 * 1000 * f.scale),
                                             10 * f.scale),
                                level_multiplier |-> level_multiplier]]
    /\ UNCHANGED <<students, profile, trajectory, predictions, day, cacheVars>>

\* A prediction for any name: a name the table lacks is predicted against the
\* requirement of Dean_List.
PredictAgainstDefault(student_id, distinction) ==
    PredictAgainst(student_id, distinction,
                   IF distinction \in DOMAIN distinction_requirements
                   THEN distinction_requirements[distinction]
                   ELSE distinction_requirements.Dean_List)

\* A prediction that fetches the student data before it looks the distinction
\* up: a missing student is reported ahead of an unknown distinction.
PredictFetchFirst(student_id, distinction) ==
    IF distinction \in DOMAIN distinction_requirements
          \/ ~_get_comprehensive_student_data(student_id).found
    THEN PredictAgainstDefault(student_id, distinction)
    ELSE /\ result' = [op |-> "predict_distinction_probability",
                       student_id |-> student_id, distinction |-> distinction,
                       value |-> UnknownDistinction(distinction)]
         /\ UNCHANGED <<students, profile, trajectory, predictions, day, cacheVars>>

\* predict_distinction_probability(student_id, distinction).
PredictDistinctionProbability(student_id, distinction) ==
    IF distinction \notin DOMAIN distinction_requirements
    THEN /\ result' = [op |-> "predict_distinction_probability",
                       student_id |-> student_id, distinction |-> distinction,
                       value |-> UnknownDistinction(distinction)]
         /\ UNCHANGED <<students, profile, trajectory, predictions, day, cacheVars>>
    ELSE PredictAgainst(student_id, distinction, distinction_requirements[distinction])

\* cleanup_old_data(days): the DELETE on excellence_trajectory runs unless
\* the one before it or it itself raises; the exception is logged.
CleanupOldData(days) ==
    \E raised \in BOOLEAN :
    \E deleted \in [StudentIds -> 0..MaxRows] :
        /\ \A s \in StudentIds : deleted[s] \in CleanupCounts(trajectory[s], days)
        /\ raised => \A s \in StudentIds : deleted[s] = 0
        /\ trajectory' = IF raised THEN trajectory
                         ELSE [s \in StudentIds |->
                                  cleanup_old_data(trajectory[s], deleted[s])]
        /\ result' = [op |-> "cleanup_old_data", days |-> days, raised |-> raised]
        /\ UNCHANGED <<students, profile, predictions, day, cacheVars>>

AdvanceDay ==
    /\ day < MaxDay
    /\ day' = day + 1
    /\ UNCHANGED <<students, profile, trajectory, predictions, result, cacheVars>>

(***************************************************************************)
(* PredictionService: the Redis prediction cache                           *)
(***************************************************************************)
\* Python's None.
NoValue == [kind |-> "none"]

\* f"prediction:{student_id}:{distinction}"
CacheKey(student_id, distinction) ==
    "prediction:" \o student_id \o ":" \o distinction

\* The members of a prediction dictionary that hold strings.
StringMembers == {"kind", "distinction", "error"}

\* json.dumps of a prediction dictionary: a JSON object whose members are
\* JSON strings and JSON numbers, and null or a string for the estimated
\* date.
json_dumps(prediction) ==
    [json |-> [name \in DOMAIN prediction |->
                 IF name \in StringMembers
                 THEN [string |-> prediction[name]]
                 ELSE IF name = "estimated_achievement_date"
                 THEN IF prediction[name].none THEN [null |-> TRUE]
                      ELSE [string |-> prediction[name].isoformat]
                 ELSE [number |-> prediction[name]]]]

\* json.loads of a JSON object: a dictionary of str and float, None for null.
json_loads(data) ==
    [name \in DOMAIN data.json |->
        IF name \in StringMembers
        THEN data.json[name].string
        ELSE IF name = "estimated_achievement_date"
        THEN IF "null" \in DOMAIN data.json[name] THEN NoDate
             ELSE [none |-> FALSE, isoformat |-> data.json[name].string]
        ELSE data.json[name].number]

\* Redis SETEX key ttl data at time t: an expire time that is not positive is
\* refused (redis.ResponseError) and leaves the store as it was.
RedisSetex(store, key, ttl, data, t) ==
    IF ttl <= 0 THEN [raised |-> TRUE, store |-> store]
    ELSE [raised |-> FALSE,
          store |-> (key :> [data |-> data, expires_at |-> t + ttl]) @@ store]

\* A lookup that returns whatever was stored, expired or not.
CachedIgnoringExpiry(store, key, t) ==
    IF key \in DOMAIN store THEN json_loads(store[key].data) ELSE NoValue

\* Redis GET key at time t and json.loads of what it gave: an entry is gone
\* once its time has come.
CachedAt(store, key, t) ==
    IF key \in DOMAIN store /\ t < store[key].expires_at
    THEN json_loads(store[key].data)
    ELSE NoValue

\* The lookup without the try: the client's exception reaches the caller.
get_cached_prediction_unguarded(student_id, distinction) ==
    IF ~cache_enabled THEN NoValue
    ELSE IF ~redis_up THEN [kind |-> "exception", error |-> "ConnectionError"]
    ELSE CachedAt(redis, CacheKey(student_id, distinction), now)

\* What get_cached_prediction returns.
get_cached_prediction(student_id, distinction) ==
    IF ~cache_enabled THEN NoValue
    ELSE IF ~redis_up THEN NoValue       \* ConnectionError, caught and logged
    ELSE CachedAt(redis, CacheKey(student_id, distinction), now)

\* A store under a key built from the student alone.
cache_prediction_by_student(student_id, distinction, prediction, ttl) ==
    IF ~cache_enabled THEN redis
    ELSE IF ~redis_up THEN redis
    ELSE RedisSetex(redis, "prediction:" \o student_id, ttl,
                    json_dumps(prediction), now).store

\* The store cache_prediction leaves.
cache_prediction(student_id, distinction, prediction, ttl) ==
    IF ~cache_enabled THEN redis
    ELSE IF ~redis_up THEN redis         \* ConnectionError, caught and logged
    ELSE RedisSetex(redis, CacheKey(student_id, distinction), ttl,
                    json_dumps(prediction), now).store

\* The students and distinctions the cache is asked about.
CacheStudents == {"s1", "s2"}
CacheDistinctions == {"Dean_List"}

\* Identifiers as the service takes them, any str: with and without ':'.
KeyStudents == {"s1", "s1:x"}
KeyDistinctions == {"Dean_List", "x:Dean_List"}

\* PREDICTION_CACHE_TTL in units of ten minutes: TestingConfig 0, Config 1
\* (600 s), ProductionConfig 3 (1800 s).
Ttls == {0, 1, 3}
MaxTtl == CHOOSE t \in Ttls : \A u \in Ttls : u <= t

MaxNow == 3

\* The predictions compute may return.
CacheValues ==
    {PredictCall(m, "Dean_List", distinction_requirements.Dean_List,
                 ScoreCall(m, 0), [ok |-> FALSE], 0) : m \in {MidStudent, TopStudent}}

\* The request handlers that run at the same time.
Callers == {"a", "b"}

GetCachedPrediction(student_id, distinction) ==
    /\ reply' = [op |-> "get_cached_prediction",
                 student_id |-> student_id, distinction |-> distinction,
                 value |-> get_cached_prediction(student_id, distinction)]
    /\ UNCHANGED <<callers, engineVars, cache_enabled, redis_up, redis, now>>

CachePrediction(student_id, distinction, prediction, ttl) ==
    /\ redis' = cache_prediction(student_id, distinction, prediction, ttl)
    /\ reply' = [op |-> "cache_prediction",
                 student_id |-> student_id, distinction |-> distinction,
                 prediction |-> prediction, ttl |-> ttl]
    /\ UNCHANGED <<callers, engineVars, cache_enabled, redis_up, now>>

\* getOrCompute(student_id, distinction, compute, ttl): the policy of the
\* cache in front of the predictor, over get_cached_prediction and
\* cache_prediction.  The source has no method that composes the two.
GetOrCompute(student_id, distinction, ttl) ==
    \E cached \in {get_cached_prediction(student_id, distinction)} :
    IF cached.kind # "none"
    THEN /\ reply' = [op |-> "getOrCompute",
                      student_id |-> student_id, distinction |-> distinction,
                      ttl |-> ttl, computed |-> <<>>, value |-> cached]
         /\ UNCHANGED <<callers, engineVars, cache_enabled, redis_up, redis, now>>
    ELSE \E fresh \in CacheValues :
         /\ redis' = cache_prediction(student_id, distinction, fresh, ttl)
         /\ reply' = [op |-> "getOrCompute",
                      student_id |-> student_id, distinction |-> distinction,
                      ttl |-> ttl, computed |-> <<fresh>>, value |-> fresh]
         /\ UNCHANGED <<callers, engineVars, cache_enabled, redis_up, now>>

\* test_cache(): ping.
TestCache ==
    /\ reply' = [op |-> "test_cache", value |-> cache_enabled /\ redis_up]
    /\ UNCHANGED <<callers, engineVars, cache_enabled, redis_up, redis, now>>

\* Ten minutes pass.
Tick ==
    /\ now < MaxNow
    /\ now' = now + 1
    /\ UNCHANGED <<callers, engineVars, cache_enabled, redis_up, redis, reply>>

\* The Redis server stops answering, or answers again; it keeps its store.
RedisOutage ==
    /\ redis_up' = ~redis_up
    /\ UNCHANGED <<callers, engineVars, cache_enabled, redis, now, reply>>

\* getOrCompute of one caller among several, a Redis command at a time: the
\* lookup (GET), then on a miss compute, then the store (SETEX).  Redis runs
\* each command to its end before the next.
CallerLookup(c, student_id, distinction, ttl) ==
    /\ callers[c].op = "none"
    /\ \E cached \in {get_cached_prediction(student_id, distinction)} :
          callers' = [callers EXCEPT ![c] =
                        [op |-> IF cached.kind # "none" THEN "done" ELSE "computing",
                         student_id |-> student_id, distinction |-> distinction,
                         ttl |-> ttl, computed |-> <<>>, value |-> cached]]
    /\ UNCHANGED <<engineVars, cache_enabled, redis_up, redis, now, reply>>

CallerCompute(c) ==
    /\ callers[c].op = "computing"
    /\ \E fresh \in CacheValues :
          callers' = [callers EXCEPT ![c].op = "storing", ![c].computed = <<fresh>>]
    /\ UNCHANGED <<engineVars, cache_enabled, redis_up, redis, now, reply>>

CallerStore(c) ==
    /\ callers[c].op = "storing"
    /\ redis' = cache_prediction(callers[c].student_id, callers[c].distinction,
                                 callers[c].computed[1], callers[c].ttl)
    /\ callers' = [callers EXCEPT ![c].op = "done",
                                  ![c].value = callers[c].computed[1]]
    /\ UNCHANGED <<engineVars, cache_enabled, redis_up, now, reply>>

CallerReturn(c) ==
    /\ callers[c].op = "done"
    /\ callers' = [callers EXCEPT ![c] = Idle]
    /\ UNCHANGED <<engineVars, cache_enabled, redis_up, redis, now, reply>>

(***************************************************************************)
(* Specifications                                                          *)
(***************************************************************************)
\* The cache before its first call.
CacheIdle ==
    /\ cache_enabled = TRUE
    /\ redis_up = TRUE
    /\ redis = <<>>
    /\ now = 0
    /\ reply = Idle
    /\ callers = [c \in Callers |-> Idle]

\* The engine's tables around one student with data and one without.
EngineTables(sample, histories) ==
    /\ students \in {[s \in StudentIds |-> IF s = "s1" THEN m ELSE NoStudent] :
                        m \in sample}
    /\ trajectory \in {[s \in StudentIds |-> IF s = "s1" THEN h ELSE <<>>] :
                          h \in histories}
    /\ profile = [s \in StudentIds |->
                    IF trajectory[s] = <<>> THEN 0
                    ELSE trajectory[s][Len(trajectory[s])].excellence_score]
    /\ predictions = <<>>
    /\ day = 0
    /\ result = Idle

\* The engine: scores and predictions over the days.
Init == EngineTables(SampleStudents, PriorHistories) /\ CacheIdle

Next ==
    \/ \E s \in StudentIds : CalculateExcellenceScore(s)
    \/ \E s \in StudentIds, d \in RequestedDistinctions :
          PredictDistinctionProbability(s, d)
    \/ AdvanceDay

Spec == Init /\ [][Next]_vars

\* One calculate_excellence_score call on each input of FactorInputs(Baselines).
InitFactors == EngineTables(FactorInputs(Baselines), {<<>>}) /\ CacheIdle

NextFactors == result = Idle /\ CalculateExcellenceScore("s1")

SpecFactors == InitFactors /\ [][NextFactors]_vars

\* One predict_distinction_probability call on each input of PredictInputs,
\* for each distinction name.
InitPredict == EngineTables(PredictInputs, PredictHistories) /\ CacheIdle

NextPredict ==
    result = Idle /\ \E d \in DistinctionNames : PredictDistinctionProbability("s1", d)

SpecPredict == InitPredict /\ [][NextPredict]_vars

\* One _analyze_improvement_trajectory call on each table of Histories(MaxHistory).
InitTrajectory == EngineTables({MidStudent}, Histories(MaxHistory)) /\ CacheIdle

NextTrajectory == result = Idle /\ AnalyzeImprovementTrajectory("s1")

SpecTrajectory == InitTrajectory /\ [][NextTrajectory]_vars

\* One prediction on each combination of gpa, score, distinction and history.
InitMetrics == EngineTables({MidStudent}, {<<>>}) /\ CacheIdle

NextMetrics ==
    /\ result = Idle
    /\ \E g \in MetricGpas, x \in MetricScores, d \in DOMAIN distinction_requirements,
          rows \in MetricRows : PredictFromMetrics(g, x, d, rows)

SpecMetrics == InitMetrics /\ [][NextMetrics]_vars

\* An engine constructed with each weight dictionary, then one score on it.
InitLoad == EngineTables({MidStudent}, {<<>>}) /\ CacheIdle

NextLoad ==
    \/ \E weights \in WeightTables : LoadEngine(weights)
    \/ \E data \in AcademicInputs(MidStudent) : CalculateOnEngine(data)

SpecLoad == InitLoad /\ [][NextLoad]_vars

\* The engine and the maintenance of the database over the days.
InitMaintenance == EngineTables(SampleStudents, OldHistories) /\ CacheIdle

NextMaintenance ==
    \/ \E s \in StudentIds : CalculateExcellenceScore(s)
    \/ \E s \in StudentIds : PredictDistinctionProbability(s, "Dean_List")
    \/ \E days \in CleanupDays : CleanupOldData(days)
    \/ AdvanceDay

SpecMaintenance == InitMaintenance /\ [][NextMaintenance]_vars

\* The cache: calls, time and outages.
InitCache ==
    /\ EngineTables({MidStudent}, {<<>>})
    /\ cache_enabled \in BOOLEAN
    /\ redis_up = TRUE
    /\ redis = <<>>
    /\ now = 0
    /\ reply = Idle
    /\ callers = [c \in Callers |-> Idle]

NextCache ==
    \/ \E s \in CacheStudents, d \in CacheDistinctions : GetCachedPrediction(s, d)
    \/ \E s \in CacheStudents, d \in CacheDistinctions, v \in CacheValues, ttl \in Ttls :
          CachePrediction(s, d, v, ttl)
    \/ \E s \in CacheStudents, d \in CacheDistinctions, ttl \in Ttls :
          GetOrCompute(s, d, ttl)
    \/ TestCache
    \/ Tick
    \/ RedisOutage

SpecCache == InitCache /\ [][NextCache]_vars

\* Stores and lookups under identifiers of any form, the cache available.
InitKeys == EngineTables({MidStudent}, {<<>>}) /\ CacheIdle

NextKeys ==
    \/ \E s \in KeyStudents, d \in KeyDistinctions : GetCachedPrediction(s, d)
    \/ \E s \in KeyStudents, d \in KeyDistinctions, v \in CacheValues, ttl \in Ttls :
          CachePrediction(s, d, v, ttl)

SpecKeys == InitKeys /\ [][NextKeys]_vars

\* Two callers of getOrCompute at the same time, with the cache available.
InitCallers == EngineTables({MidStudent}, {<<>>}) /\ CacheIdle

NextCallers ==
    \/ \E c \in Callers, s \in CacheStudents, d \in CacheDistinctions, ttl \in Ttls :
          CallerLookup(c, s, d, ttl)
    \/ \E c \in Callers : CallerCompute(c)
    \/ \E c \in Callers : CallerStore(c)
    \/ \E c \in Callers : CallerReturn(c)
    \/ Tick

SpecCallers == InitCallers /\ [][NextCallers]_vars

(***************************************************************************)
(* Properties                                                              *)
(***************************************************************************)
\* C1: for valid student metrics each of the five factors computed by
\* _calculate_excellence_factors lies in [0, 100] and the final score of
\* calculate_excellence_score lies in [0, 100].
C1_FactorsAndScoreInRange ==
    (result.op = "calculate_excellence_score" /\ result.value.kind = "score") =>
        LET f == result.value.computed_factors
            final == result.value.computed_final
        IN  /\ \A name \in FactorNames : 0 <= f[name] /\ f[name] <= 100 * f.scale
            /\ 0 <= final.num /\ final.num <= 100 * final.den
            /\ 0 <= result.value.excellence_score
            /\ result.value.excellence_score <= 10000

\* C2: every successful result of predict_distinction_probability has a
\* probability in [0, 95] and a confidence of at most 95.
C2_ProbabilityAndConfidenceCeiling ==
    (result.op = "predict_distinction_probability"
        /\ result.value.kind = "prediction") =>
        /\ 0 <= result.value.probability
        /\ result.value.probability <= 950
        /\ result.value.confidence <= 950

\* A prediction whose probability and confidence both stand at the ceiling.
C2_CeilingReached ==
    /\ result.op = "predict_distinction_probability"
    /\ result.value.kind = "prediction"
    /\ result.value.probability = 950
    /\ result.value.confidence = 950

\* C3: predict_distinction_probability with a name the requirement table
\* lacks returns the unknown-distinction error and never a prediction.
C3_UnknownDistinctionIsAnError ==
    (result.op = "predict_distinction_probability"
        /\ result.distinction \notin DOMAIN distinction_requirements) =>
        /\ result.value.kind = "error"
        /\ result.value.error = "Unknown distinction: " \o result.distinction
        /\ DOMAIN result.value = {"kind", "error"}

\* An unknown distinction asked for a student whose data is there.
C3_UnknownAskedForKnownStudent ==
    /\ result.op = "predict_distinction_probability"
    /\ result.distinction = "Valedictorian"
    /\ students[result.student_id].found
    /\ result.value.kind = "error"

\* C4: a call for a student without a record returns the not-found failure;
\* it computes no factor, writes no score and no trajectory row and stores no
\* prediction.
C4_NotFoundNoPartialComputation ==
    [][(/\ result' # result
        /\ result'.op \in {"calculate_excellence_score",
                           "predict_distinction_probability"}
        /\ ~students[result'.student_id].found
        /\ result'.op = "predict_distinction_probability" =>
               result'.distinction \in DOMAIN distinction_requirements)
       => /\ result'.value.kind = "error"
          /\ result'.value.error = "Student data not found"
          /\ DOMAIN result'.value \subseteq {"kind", "error", "score"}
          /\ profile' = profile
          /\ trajectory' = trajectory
          /\ predictions' = predictions]_vars

\* A prediction asked for the student without a record, after the other
\* student's score was written.
C4_NotFoundReturned ==
    /\ result.op = "predict_distinction_probability"
    /\ result.student_id = "s2"
    /\ result.distinction \in DOMAIN distinction_requirements
    /\ result.value.error = "Student data not found"
    /\ Len(trajectory["s1"]) = MaxRows

\* C5: when the score calculation embedded in a prediction fails the
\* prediction fails; a successful prediction's current score is the score
\* computed for the student, never a substituted 0.
C5_PredictionNeverOnFailedScore ==
    (result.op = "predict_distinction_probability"
        /\ result.value.kind = "prediction") =>
        /\ result.excellence_data.kind = "score"
        /\ result.value.current_excellence_score
               = result.excellence_data.excellence_score

\* C6 as stated: the returned score equals min(100, weighted sum * level
\* multiplier) over the factor values returned in the same result.
C6_ScoreIsFormulaOverReturnedFactors ==
    (result.op = "calculate_excellence_score" /\ result.value.kind = "score") =>
        LET r == result.value.factors
            level == result.data.academic_level
            multiplier == CASE level = "undergraduate" -> 10
                            [] level = "graduate" -> 13
                            [] level = "doctoral" -> 16
                            [] level = "postdoc" -> 20
                            [] OTHER -> 10
            sum == 40 * r["academic_performance"] + 25 * r["research_engagement"]
                   + 20 * r["critical_thinking"] + 10 * r["leadership_service"]
                   + 5 * r["innovation_creativity"]
        IN  1000 * result.value.excellence_score = Min(sum * multiplier, 10000000)

\* C6, amended: the returned score is min(100, weighted sum * level
\* multiplier) over the factors as computed, rounded to two decimals; the
\* returned factors are the computed ones, each rounded to two decimals.
C6_ScoreIsRoundedFormula ==
    (result.op = "calculate_excellence_score" /\ result.value.kind = "score") =>
        LET f == result.value.computed_factors
            level == result.data.academic_level
            multiplier == CASE level = "undergraduate" -> 10
                            [] level = "graduate" -> 13
                            [] level = "doctoral" -> 16
                            [] level = "postdoc" -> 20
                            [] OTHER -> 10
            sum == 40 * f.academic_performance + 25 * f.research_engagement
                   + 20 * f.critical_thinking + 10 * f.leadership_service
                   + 5 * f.innovation_creativity
        IN  /\ result.value.excellence_score
                   = RoundDiv(Min(sum * multiplier, 100000 * f.scale), 10 * f.scale)
            /\ \A name \in FactorNames :
                   result.value.factors[name] = RoundDiv(100 * f[name], f.scale)

\* A graduate's score below the ceiling whose exact value has a third decimal.
C6_ScoreWasRounded ==
    /\ result.op = "calculate_excellence_score"
    /\ result.value.kind = "score"
    /\ result.value.level_multiplier = 13
    /\ result.value.excellence_score < 10000
    /\ result.value.computed_final.num % (result.value.computed_final.den \div 100) # 0

C9_CacheRoundTrip ==
    [][(/\ reply'.op = "cache_prediction"
        /\ now' = now
        /\ redis_up' = redis_up
        /\ cache_enabled
        /\ redis_up)
       => \A t \in now..(MaxNow + MaxTtl) :
              CachedAt(redis', CacheKey(reply'.student_id, reply'.distinction), t)
                  = IF t < now + reply'.ttl THEN reply'.prediction ELSE NoValue]_vars

\* C10: with the cache available, getOrCompute returns a live entry's value
\* unchanged without invoking compute; otherwise it invokes compute exactly
\* once, returns the fresh value and leaves it stored under the key to expire
\* at now + ttl.
C10_GetOrComputePolicy ==
    [][(/\ reply'.op = "getOrCompute"
        /\ now' = now
        /\ redis_up' = redis_up)
       => LET key == CacheKey(reply'.student_id, reply'.distinction)
              available == cache_enabled /\ redis_up
              present == available /\ key \in DOMAIN redis
                         /\ now < redis[key].expires_at
          IN  IF present
              THEN /\ reply'.computed = <<>>
                   /\ reply'.value = json_loads(redis[key].data)
                   /\ reply'.value \in CacheValues
                   /\ redis' = redis
              ELSE /\ Len(reply'.computed) = 1
                   /\ reply'.value = reply'.computed[1]
                   /\ available =>
                        /\ \A k \in DOMAIN redis' \ {key} :
                               k \in DOMAIN redis /\ redis'[k] = redis[k]
                        /\ IF reply'.ttl > 0
                           THEN /\ key \in DOMAIN redis'
                                /\ redis'[key].expires_at = now + reply'.ttl
                                /\ json_loads(redis'[key].data) = reply'.value
                           ELSE key \in DOMAIN redis' =>
                                    redis'[key].expires_at <= now]_vars

\* A getOrCompute answered from the cache after time has passed.
C10_ServedFromCache ==
    /\ reply.op = "getOrCompute"
    /\ reply.computed = <<>>
    /\ reply.value \in CacheValues
    /\ now > 0
    /\ CacheKey(reply.student_id, reply.distinction) \in DOMAIN redis

\* C11: with the cache disabled, or the Redis server not answering,
\* get_cached_prediction is a miss and cache_prediction returns without
\* storing; no exception reaches the caller, and getOrCompute computes.
C11_UnavailableCacheDegrades ==
    [][(/\ now' = now
        /\ redis_up' = redis_up
        /\ ~(cache_enabled /\ redis_up))
       => /\ reply'.op = "get_cached_prediction" => reply'.value = NoValue
          /\ reply'.op = "cache_prediction" => redis' = redis
          /\ reply'.op = "getOrCompute" =>
                /\ Len(reply'.computed) = 1
                /\ reply'.value = reply'.computed[1]
                /\ reply'.value.kind = "prediction"
                /\ redis' = redis]_vars

\* A lookup that missed although the store holds a live entry for the key:
\* the server was not answering.
C11_MissDuringOutage ==
    /\ reply.op = "get_cached_prediction"
    /\ reply.value = NoValue
    /\ cache_enabled
    /\ ~redis_up
    /\ CacheKey(reply.student_id, reply.distinction) \in DOMAIN redis
    /\ now < redis[CacheKey(reply.student_id, reply.distinction)].expires_at

\* C12: under any interleaving of two callers, every entry of the store is
\* a whole value some caller computed; a lookup returns a miss or the value
\* stored under its key; a store writes its own key only, and in full; and
\* once two callers of one key have both computed and stored, a live entry
\* of the key holds one of their two values.
C12_EntriesWrittenAtomically ==
    [][/\ \A k \in DOMAIN redis' : json_loads(redis'[k].data) \in CacheValues
       /\ \A c \in Callers :
            LET key == CacheKey(callers'[c].student_id, callers'[c].distinction)
            IN  /\ (callers[c].op = "none" /\ callers'[c].op = "done") =>
                      /\ key \in DOMAIN redis
                      /\ callers'[c].value = json_loads(redis[key].data)
                /\ (callers[c].op = "none" /\ callers'[c].op = "computing") =>
                      callers'[c].value = NoValue
                /\ (callers[c].op = "storing" /\ callers'[c].op = "done") =>
                      /\ \A k \in (DOMAIN redis \cup DOMAIN redis') \ {key} :
                             /\ k \in DOMAIN redis
                             /\ k \in DOMAIN redis'
                             /\ redis'[k] = redis[k]
                      /\ callers'[c].ttl > 0 =>
                             /\ key \in DOMAIN redis'
                             /\ json_loads(redis'[key].data) = callers'[c].computed[1]
       /\ \A c \in Callers : \A o \in Callers \ {c} :
            (/\ callers'[c].op = "done" /\ callers'[o].op = "done"
             /\ callers'[c].computed # <<>> /\ callers'[o].computed # <<>>
             /\ callers'[c].student_id = callers'[o].student_id
             /\ callers'[c].distinction = callers'[o].distinction)
            => LET key == CacheKey(callers'[c].student_id, callers'[c].distinction)
               IN  (key \in DOMAIN redis' /\ now' < redis'[key].expires_at) =>
                       json_loads(redis'[key].data)
                           \in {callers'[c].computed[1], callers'[o].computed[1]}
      ]_vars

\* Two callers of one key that both missed, computed different values and
\* stored them; the key holds one of the two.
C12_BothMissedAndStored ==
    /\ callers["a"].op = "done" /\ callers["b"].op = "done"
    /\ callers["a"].computed # <<>> /\ callers["b"].computed # <<>>
    /\ callers["a"].computed # callers["b"].computed
    /\ callers["a"].student_id = callers["b"].student_id
    /\ callers["a"].ttl > 0 /\ callers["b"].ttl > 0
    /\ CacheKey(callers["a"].student_id, callers["a"].distinction) \in DOMAIN redis
    /\ json_loads(redis[CacheKey(callers["a"].student_id,
                                 callers["a"].distinction)].data)
           = callers["b"].computed[1]

\* C13: when the profile update or the trajectory insert fails,
\* calculate_excellence_score still returns the whole computed score and
\* factors; when the prediction is not stored, or the embedded score write
\* fails, predict_distinction_probability still returns the prediction.
C13_WriteFailureStillReturns ==
    [][(result' # result /\ "data" \in DOMAIN result')
       => /\ (result'.op = "calculate_excellence_score" /\ ~result'.written) =>
                 /\ result'.value = ScoreCall(result'.data, day)
                 /\ (result'.data.found /\ ~FactorsRaise(result'.data)) =>
                        /\ result'.value.kind = "score"
                        /\ DOMAIN result'.value.factors = FactorNames
          /\ (/\ result'.op = "predict_distinction_probability"
              /\ ~(result'.written /\ result'.stored)) =>
                 /\ result'.excellence_data = ScoreCall(result'.data, day)
                 /\ result'.value =
                        PredictCall(result'.data, result'.distinction,
                                    distinction_requirements[result'.distinction],
                                    result'.excellence_data,
                                    result'.trajectory_data, day)
                 /\ ~PredictionRaises(result'.data) =>
                        result'.value.kind = "prediction"]_vars

\* A score returned although its write failed: the profile does not hold it.
C13_ScoreReturnedUnwritten ==
    /\ result.op = "calculate_excellence_score"
    /\ ~result.written
    /\ result.value.kind = "score"
    /\ result.value.excellence_score > 0
    /\ profile[result.student_id] # ToDecimal(result.value.computed_final)

\* C14: a result of a computation whose persistence write failed carries a
\* degraded-durability warning; a result without a warning means every
\* write succeeded.
C14_UnflaggedResultWasPersisted ==
    /\ (result.op = "calculate_excellence_score" /\ result.value.kind = "score") =>
           ("warning" \in DOMAIN result.value \/ result.written)
    /\ (/\ result.op = "predict_distinction_probability"
        /\ result.value.kind = "prediction") =>
           ("warning" \in DOMAIN result.value
                \/ (result.written /\ result.stored))

\* C15: raising one positively weighted input of a record, every other
\* field the same, lowers no factor, unrounded or returned, and does not
\* lower the score.
C15_FactorsAndScoreMonotone ==
    (result.op = "calculate_excellence_score" /\ result.value.kind = "score") =>
        \A field \in ArithmeticFields : \A more \in Increments :
            LET larger == ScoreCall([result.data EXCEPT ![field] = @ + more], day)
            IN  /\ larger.kind = "score"
                /\ \A name \in FactorNames :
                      /\ larger.computed_factors[name]
                             >= result.value.computed_factors[name]
                      /\ larger.factors[name] >= result.value.factors[name]
                /\ larger.excellence_score >= result.value.excellence_score

\* A record whose score rises with one more presentation, and stays with
\* ten more service hours (the 25-point ceiling of the hours is reached).
C15_RaisedInputRaisesScore ==
    /\ result.op = "calculate_excellence_score"
    /\ result.value.kind = "score"
    /\ ScoreCall([result.data EXCEPT !.presentations = @ + 1], day).excellence_score
           > result.value.excellence_score
    /\ ScoreCall([result.data EXCEPT !.service_hours = @ + 10], day).excellence_score
           = result.value.excellence_score

\* C16: gpa 3.9 and score 96 against Summa_Cum_Laude with a trajectory factor
\* of 0.6: both factors are 1.0, the base probability is 100, the
\* probability 88.0 and the gap 0.
C16_SummaWorkedExample ==
    (/\ result.op = "predict_from_metrics"
     /\ result.current_gpa = 390
     /\ result.current_excellence = 9600
     /\ result.distinction = "Summa_Cum_Laude"
     \* two rows, the later one 2 points above the earlier: a slope of 2
     /\ Len(result.rows) = 2
     /\ result.rows[1].excellence_score = result.rows[2].excellence_score + 200)
    => LET requirement == distinction_requirements.Summa_Cum_Laude
           base == base_probability(390, 9600, requirement)
       IN  /\ _analyze_improvement_trajectory([ok |-> TRUE, rows |-> result.rows])
                  = [num |-> 3, den |-> 5]
           /\ requirement.gpa_min = 390
           /\ requirement.excellence_score_min = 9500
           /\ requirement.gpa = 8 /\ requirement.excellence = 12
           /\ gpa_factor(390, requirement) = [num |-> 1, den |-> 1]
           /\ excellence_factor(9600, requirement) = [num |-> 1, den |-> 1]
           /\ base.num = 100 * base.den
           /\ result.value.probability = 880
           /\ result.value.gap = 0

C16_SummaExamplePredicted ==
    /\ result.op = "predict_from_metrics"
    /\ result.current_gpa = 390
    /\ result.current_excellence = 9600
    /\ result.distinction = "Summa_Cum_Laude"
    /\ result.value.trajectory_factor = 60
    /\ result.value.kind = "prediction"

\* C17 as stated: gpa 3.2 and score 70 against Dean_List with a trajectory
\* factor of 0.5: the probability is 78.3 and the gap 5.
C17_DeanListProbability783 ==
    (/\ result.op = "predict_from_metrics"
     /\ result.current_gpa = 320
     /\ result.current_excellence = 7000
     /\ result.distinction = "Dean_List"
     \* no history, or two rows of one score: a slope of 0
     /\ (Len(result.rows) = 2 =>
            result.rows[1].excellence_score = result.rows[2].excellence_score))
    => /\ result.value.probability = 783
       /\ result.value.gap = 500

\* C17 as the code computes it: the base probability is 1936 / 21 (92.19...),
\* times 0.85 is 78.36..., and the probability 78.4; the gap is 5.
C17_DeanListProbability784 ==
    (/\ result.op = "predict_from_metrics"
     /\ result.current_gpa = 320
     /\ result.current_excellence = 7000
     /\ result.distinction = "Dean_List"
     \* no history, or two rows of one score: a slope of 0
     /\ (Len(result.rows) = 2 =>
            result.rows[1].excellence_score = result.rows[2].excellence_score))
    => LET requirement == distinction_requirements.Dean_List
           base == base_probability(320, 7000, requirement)
       IN  /\ _analyze_improvement_trajectory([ok |-> TRUE, rows |-> result.rows])
                  = Neutral
           /\ requirement.gpa_min = 350
           /\ requirement.excellence_score_min = 7500
           /\ requirement.gpa = 12 /\ requirement.excellence = 8
           /\ Fraction(base.num, base.den) = [num |-> 1936, den |-> 21]
           /\ result.value.probability = 784
           /\ result.value.gap = 500

C17_DeanListExamplePredicted ==
    /\ result.op = "predict_from_metrics"
    /\ result.current_gpa = 320
    /\ result.current_excellence = 7000
    /\ result.distinction = "Dean_List"
    /\ result.rows # <<>>
    /\ result.value.trajectory_factor = 50
    /\ result.value.kind = "prediction"

C19_GapIsClampedShortfall ==
    (result.op = "predict_distinction_probability"
        /\ result.value.kind = "prediction") =>
        LET required == distinction_requirements[result.distinction].excellence_score_min
            current == result.value.current_excellence_score
        IN  /\ result.value.required_excellence_score = required
            /\ current = IF result.excellence_data.kind = "score"
                         THEN result.excellence_data.excellence_score ELSE 0
            /\ result.value.gap >= 0
            /\ result.value.gap = 0 <=> current >= required
            /\ current < required => result.value.gap = required - current

\* A prediction whose current score is above the required one: the gap is 0.
C19_ScoreAboveRequired ==
    /\ result.op = "predict_distinction_probability"
    /\ result.value.kind = "prediction"
    /\ result.value.current_excellence_score
           > result.value.required_excellence_score
    /\ result.value.gap = 0

\* C20: a prediction carries an estimated achievement date only when its
\* trajectory factor is above 0.5 and its gap is positive; any other
\* prediction carries none, and no date at all.
C20_DateOnlyOnRisingTrendAndGap ==
    (result.op = "predict_distinction_probability"
        /\ result.value.kind = "prediction") =>
        LET trajectory_factor == _analyze_improvement_trajectory(result.trajectory_data)
            projected == /\ 2 * trajectory_factor.num > trajectory_factor.den
                         /\ result.value.gap > 0
            date == result.value.estimated_achievement_date
        IN  /\ ~date.none => projected
            /\ ~projected => date = NoDate
            /\ ~date.none => date.isoformat > result.value.calculated_at

\* A prediction with a date, and its score short of the requirement.
C20_DateProjected ==
    /\ result.op = "predict_distinction_probability"
    /\ result.value.kind = "prediction"
    /\ ~result.value.estimated_achievement_date.none
    /\ result.value.gap > 0
    /\ result.value.trajectory_factor > 50

\* C21 as stated: the reported probability is min(95, base * (0.7 + 0.3 *
\* trajectory_factor)) itself, base = 100 * (gpa_factor * weight_gpa +
\* excellence_factor * weight_excellence).
C21_ProbabilityIsFormula ==
    (result.op = "predict_distinction_probability"
        /\ result.value.kind = "prediction") =>
        LET requirement == distinction_requirements[result.distinction]
            g == gpa_factor(result.value.current_gpa, requirement)
            e == excellence_factor(result.value.current_excellence_score, requirement)
            t == _analyze_improvement_trajectory(result.trajectory_data)
            \* base = baseNum / baseDen
            baseNum == 5 * (g.num * requirement.gpa * e.den
                            + e.num * requirement.excellence * g.den)
            baseDen == g.den * e.den
            \* 10 * base * (0.7 + 0.3 t) = baseNum * (7 t.den + 3 t.num) / (baseDen * t.den)
            x == MulDivMod(baseNum, 7 * t.den + 3 * t.num, baseDen)
        IN  IF x[1] \div t.den >= 10 * ProbabilityCap
            THEN result.value.probability = 10 * ProbabilityCap
            ELSE /\ x[2] = 0
                 /\ x[1] % t.den = 0
                 /\ result.value.probability = x[1] \div t.den

\* C21, amended: the reported probability is that value rounded to one
\* decimal.
C21_ProbabilityIsRoundedFormula ==
    (result.op = "predict_distinction_probability"
        /\ result.value.kind = "prediction") =>
        LET requirement == distinction_requirements[result.distinction]
            g == gpa_factor(result.value.current_gpa, requirement)
            e == excellence_factor(result.value.current_excellence_score, requirement)
            t == _analyze_improvement_trajectory(result.trajectory_data)
            baseNum == 5 * (g.num * requirement.gpa * e.den
                            + e.num * requirement.excellence * g.den)
            baseDen == g.den * e.den
        IN  result.value.probability
                = Min(10 * ProbabilityCap,
                      RoundMulDiv(baseNum, 7 * t.den + 3 * t.num, baseDen, t.den))

\* A prediction below the ceiling whose exact probability has more than one
\* decimal.
C21_ProbabilityWasRounded ==
    /\ result.op = "predict_distinction_probability"
    /\ result.value.kind = "prediction"
    /\ result.value.probability < 10 * ProbabilityCap
    /\ result.value.probability > 0
    /\ LET requirement == distinction_requirements[result.distinction]
           base == base_probability(result.value.current_gpa,
                                    result.value.current_excellence_score, requirement)
           t == _analyze_improvement_trajectory(result.trajectory_data)
       IN  MulDivMod(base.num, 7 * t.den + 3 * t.num, base.den)[2] # 0

C23_ConfidenceCountsPresentFields ==
    (result.op = "predict_distinction_probability"
        /\ result.value.kind = "prediction") =>
        LET m == result.data
            k == Cardinality({field \in {"current_gpa", "mentorship_sessions",
                                         "academic_achievements", "research_projects",
                                         "leadership_roles"} : field \notin m.nulls})
            sessions == Len(m.mentorship_sessions)
            s == IF sessions >= 10 THEN 10 ELSE IF sessions >= 5 THEN 5 ELSE 0
            l == IF m.profile_age_days >= 90 THEN 5 ELSE 0
        IN  /\ result.value.confidence = 10 * Min(95, 70 + 4 * k + s + l)
            /\ result.value.confidence >= 700
            /\ result.value.confidence <= 950

\* C24: academic_performance is (gpa / 4.0) * 100 + min(honors_courses * 2,
\* 10) + trend_bonus + min(achievement_count * 3, 15) clamped to [0, 100],
\* trend_bonus 5 for improving, -5 for declining and 0 otherwise.
C24_AcademicPerformanceClamped ==
    (result.op = "calculate_excellence_score" /\ result.value.kind = "score") =>
        LET m == result.data
            K == result.value.computed_factors.scale
            trend_bonus == CASE m.gpa_trend = "improving" -> 5
                             [] m.gpa_trend = "declining" -> -5
                             [] OTHER -> 0
            \* in units of 1 / K, the gpa in hundredths
            raw == (K \div 4) * m.current_gpa
                   + K * (Min(m.honors_courses * 2, 10) + trend_bonus
                          + Min(m.academic_achievements * 3, 15))
            clamped == IF raw < 0 THEN 0 ELSE IF raw > 100 * K THEN 100 * K ELSE raw
        IN  /\ result.value.computed_factors.academic_performance = clamped
            /\ result.value.factors.academic_performance = RoundDiv(100 * clamped, K)

\* C25: research_engagement, critical_thinking, leadership_service and
\* innovation_creativity are the stated sums of capped terms, each within
\* [0, 100]; the record with every field at its default yields 20, 40, 10
\* and 30.
C25_FourFactorFormulas ==
    (result.op = "calculate_excellence_score" /\ result.value.kind = "score") =>
        LET m == result.data
            f == result.value.computed_factors
            K == f.scale
            sessions == m.mentorship_sessions
            n == Len(sessions)
            Clamp(x) == IF x < 0 THEN 0 ELSE IF x > 100 * K THEN 100 * K ELSE x
            \* avg_session_quality * 10 in units of 1 / K, the quality in hundredths
            quality == IF n = 0 THEN 0
                       ELSE (K \div (10 * n))
                            * SumSeq([i \in 1..n |-> sessions[i].session_quality_score])
            level_score(level) == CASE level = "basic" -> 10
                                    [] level = "intermediate" -> 25
                                    [] level = "advanced" -> 40
                                    [] level = "scholar" -> 60
                                    [] OTHER -> 10
            mean_sophistication ==
                IF n = 0 THEN 0
                ELSE (K \div n)
                     * SumSeq([i \in 1..n |-> level_score(sessions[i].query_sophistication)])
            research == K * (20 + Min(m.research_projects * 15, 40)
                                + Min(m.publications * 20 + m.presentations * 10, 30))
                        + Min(quality, 10 * K)
            thinking == Max(40 * K, mean_sophistication)
                        + K * (Min(m.theoretical_frameworks_engaged * 3, 20)
                               + Min(m.elite_tier_documents * 5, 15))
            leadership == K * (10 + Min(m.leadership_roles * 15, 45)
                                  + Min(m.leadership_impact_score, 20))
                          + Min((K \div 10) * m.service_hours, 25 * K)
            innovation == K * (30 + Min(m.original_projects * 10, 30)
                                  + Min(m.creative_works * 15, 25)
                                  + Min(m.innovative_approaches_suggested * 2, 15))
        IN  /\ f.research_engagement = Clamp(research)
            /\ f.critical_thinking = Clamp(thinking)
            /\ f.leadership_service = Clamp(leadership)
            /\ f.innovation_creativity = Clamp(innovation)
            /\ (/\ n = 0
                /\ \A field \in ArithmeticFields : m[field] = 0)
               => /\ result.value.factors.research_engagement = 2000
                  /\ result.value.factors.critical_thinking = 4000
                  /\ result.value.factors.leadership_service = 1000
                  /\ result.value.factors.innovation_creativity = 3000

\* The score of the record with every field at its default.
C25_DefaultsScored ==
    /\ result.op = "calculate_excellence_score"
    /\ result.value.kind = "score"
    /\ result.data.mentorship_sessions = <<>>
    /\ \A field \in ArithmeticFields : result.data[field] = 0
    /\ result.value.factors.research_engagement = 2000
    /\ result.value.factors.innovation_creativity = 3000

\* C26: a prediction leaves the stored score and the trajectory history of
\* the student as they were, and computes its trajectory factor from the
\* history as it stood before the call.
C26_PredictionOnlyBorrows ==
    [][(result' # result /\ result'.op = "predict_distinction_probability")
       => /\ profile' = profile
          /\ trajectory' = trajectory
          /\ ("trajectory_data" \in DOMAIN result' /\ result'.trajectory_data.ok) =>
                 result'.trajectory_data.rows
                     \in TrajectoryQuery(trajectory[result'.student_id])]_vars

\* C27: the trajectory history of a student is append-only: whatever the
\* operation, the points that existed are still there, with their dates and
\* scores, and new points come after them.
C27_TrajectoryAppendOnly ==
    [][\A s \in StudentIds :
          /\ Len(trajectory'[s]) >= Len(trajectory[s])
          /\ SubSeq(trajectory'[s], 1, Len(trajectory[s])) = trajectory[s]]_vars

\* C28: the neutral momentum 0.5 comes from the insufficient-data branch
\* only: when the history could not be read the prediction is not returned
\* as a success.
C28_FailedReadIsNotNeutral ==
    (result.op = "predict_distinction_probability"
        /\ "trajectory_data" \in DOMAIN result
        /\ ~result.trajectory_data.ok)
    => result.value.kind = "error"

\* C29: two different (student_id, distinction) pairs never address one
\* cache entry, whatever the identifiers: a store for one pair leaves what
\* get_cached_prediction returns for every other pair as it was.
C29_PairsNeverShareAnEntry ==
    [][reply'.op = "cache_prediction" =>
          \A s \in KeyStudents, d \in KeyDistinctions :
              <<s, d>> # <<reply'.student_id, reply'.distinction>> =>
                  CachedAt(redis', CacheKey(s, d), now)
                      = CachedAt(redis, CacheKey(s, d), now)]_vars

\* C30: a predict_distinction_probability call for a distinction the
\* requirement table lacks returns the unknown-distinction error whether the
\* student has a record or not, and leaves the stored scores, the trajectory
\* rows and the stored predictions as they were.
C30_UnknownDistinctionCheckedFirst ==
    [][(result = Idle /\ result'.op = "predict_distinction_probability"
          /\ result'.distinction \notin DOMAIN distinction_requirements) =>
            /\ result'.value = UnknownDistinction(result'.distinction)
            /\ profile' = profile
            /\ trajectory' = trajectory
            /\ predictions' = predictions
            /\ students' = students]_vars

\* An unknown distinction asked for a student who has no record: the answer is
\* the unknown-distinction error, not the not-found one.
C30_UnknownAskedForMissingStudent ==
    /\ result.op = "predict_distinction_probability"
    /\ result.distinction = "Valedictorian"
    /\ ~students[result.student_id].found
    /\ result.value = UnknownDistinction("Valedictorian")
    /\ trajectory[result.student_id] = <<>>

====
